---- MODULE Spec2Model ----
(***************************************************************************)
(* The validation engine of the insurance-form extractor                   *)
(* (src/src/validate.py, class DataValidator) as a state machine.          *)
(*                                                                         *)
(* A Python value is a record tagged with its type.  A string is the       *)
(* sequence of its characters, each character a one-symbol TLA+ string     *)
(* (Hebrew letters are written by their names: "zayin", "kaf", ...).       *)
(* A dict is a function from its keys to values.                           *)
(***************************************************************************)
EXTENDS Integers, Sequences, FiniteSets, TLC

VARIABLES
    heap,                \* the list objects allocated so far: ref -> list of findings
    validation_results,  \* instance -> ref of the list bound to self.validation_results
    pc,                  \* instance -> position of the call in progress ("idle": none)
    data,                \* instance -> the argument of the call in progress
    now_year,            \* instance -> datetime.now().year as the call read it (0: not read)
    calls,               \* instance -> what the caller holds of each finished call
    current_year         \* the calendar year of the system clock

vars == <<heap, validation_results, pc, data, now_year, calls, current_year>>

----------------------------------------------------------------------------
(* Python values *)

PyStr(s) == [t |-> "str", s |-> s]

PyNone == [t |-> "NoneType"]

PyInt(n) == [t |-> "int", n |-> n]

PyBool(b) == [t |-> "bool", b |-> b]

PyDict(d) == [t |-> "dict", d |-> d]

PyList(l) == [t |-> "list", l |-> l]

EmptyMap == [k \in {} |-> PyNone]

\* bool(v): the truth value of v in `if v:`, `all([...])`, `x and y`
Truthy(v) ==
    CASE v.t = "str" -> Len(v.s) > 0
      [] v.t = "NoneType" -> FALSE
      [] v.t = "int" -> v.n # 0
      [] v.t = "bool" -> v.b
      [] v.t = "dict" -> DOMAIN v.d # {}
      [] v.t = "list" -> Len(v.l) > 0

\* d.get(k, default)
Get(d, k, default) == IF k \in DOMAIN d THEN d[k] ELSE default

\* isinstance(v, dict)
IsDict(v) == v.t = "dict"

\* v has a .strip() method and is accepted by re.sub / re.match
IsStr(v) == v.t = "str"

----------------------------------------------------------------------------
(* Characters and strings *)

Digits == {"0", "1", "2", "3", "4", "5", "6", "7", "8", "9"}

\* regex \d
IsDigit(c) == c \in Digits

\* characters str.strip() removes
IsSpace(c) == c \in {" ", "\t", "\n"}

DigitVal(c) ==
    CASE c = "0" -> 0 [] c = "1" -> 1 [] c = "2" -> 2 [] c = "3" -> 3
      [] c = "4" -> 4 [] c = "5" -> 5 [] c = "6" -> 6 [] c = "7" -> 7
      [] c = "8" -> 8 [] c = "9" -> 9

DigitChar(n) ==
    CASE n = 0 -> "0" [] n = 1 -> "1" [] n = 2 -> "2" [] n = 3 -> "3"
      [] n = 4 -> "4" [] n = 5 -> "5" [] n = 6 -> "6" [] n = 7 -> "7"
      [] n = 8 -> "8" [] n = 9 -> "9"

RECURSIVE LStrip(_)
LStrip(s) == IF s # <<>> /\ IsSpace(Head(s)) THEN LStrip(Tail(s)) ELSE s

RECURSIVE RStrip(_)
RStrip(s) ==
    IF s # <<>> /\ IsSpace(s[Len(s)]) THEN RStrip(SubSeq(s, 1, Len(s) - 1)) ELSE s

\* s.strip()
StrStrip(s) == RStrip(LStrip(s))

\* s.startswith(p)
StartsWith(s, p) == Len(s) >= Len(p) /\ SubSeq(s, 1, Len(p)) = p

\* s[n:]
DropFirst(s, n) == SubSeq(s, n + 1, Len(s))

RECURSIVE NatToStr(_)
NatToStr(n) ==
    IF n < 10 THEN <<DigitChar(n)>> ELSE NatToStr(n \div 10) \o <<DigitChar(n % 10)>>

\* str(n) for an int
IntToStr(n) == IF n < 0 THEN <<"-">> \o NatToStr(0 - n) ELSE NatToStr(n)

\* str(v) as an f-string renders it ({v}); a non-empty dict or list is not rendered
\* by any input of this model
Fmt(v) ==
    CASE v.t = "str" -> v.s
      [] v.t = "NoneType" -> <<"N", "o", "n", "e">>
      [] v.t = "int" -> IntToStr(v.n)
      [] v.t = "bool" -> IF v.b THEN <<"T", "r", "u", "e">> ELSE <<"F", "a", "l", "s", "e">>
      [] v.t = "dict" /\ DOMAIN v.d = {} -> <<"{", "}">>
      [] v.t = "list" /\ Len(v.l) = 0 -> <<"[", "]">>

\* the text of an int literal after int() stripped the blanks and the sign
IntBody(s) ==
    LET b == StrStrip(s)
    IN IF b # <<>> /\ Head(b) \in {"+", "-"} THEN Tail(b) ELSE b

\* int(s) accepts s: digits, single underscores only between digits
IntLiteralOk(s) ==
    LET u == IntBody(s)
    IN /\ u # <<>>
       /\ \A i \in 1..Len(u) :
            \/ IsDigit(u[i])
            \/ /\ u[i] = "_"
               /\ i > 1 /\ i < Len(u)
               /\ IsDigit(u[i - 1]) /\ IsDigit(u[i + 1])

RECURSIVE DigitsValue(_)
DigitsValue(u) ==
    IF u = <<>> THEN 0
    ELSE IF u[Len(u)] = "_" THEN DigitsValue(SubSeq(u, 1, Len(u) - 1))
    ELSE 10 * DigitsValue(SubSeq(u, 1, Len(u) - 1)) + DigitVal(u[Len(u)])

IntLiteralValue(s) ==
    LET b == StrStrip(s)
        v == DigitsValue(IntBody(s))
    IN IF Head(b) = "-" THEN 0 - v ELSE v

\* int(v): [ok |-> FALSE] stands for ValueError or TypeError
IntOf(v) ==
    CASE v.t = "str" ->
           IF IntLiteralOk(v.s) THEN [ok |-> TRUE, n |-> IntLiteralValue(v.s)]
           ELSE [ok |-> FALSE, n |-> 0]
      [] v.t = "int" -> [ok |-> TRUE, n |-> v.n]
      [] v.t = "bool" -> [ok |-> TRUE, n |-> IF v.b THEN 1 ELSE 0]
      [] OTHER -> [ok |-> FALSE, n |-> 0]

----------------------------------------------------------------------------
(* Findings and the outcome of one statement group *)

\* one entry of self.validation_results
Finding(field, value, valid, message) ==
    [field |-> field, value |-> value, valid |-> valid, message |-> message]

\* the statements ran to their end and appended `findings`
Ok(findings) == [raised |-> FALSE, out |-> findings]

\* an exception left the statements (AttributeError, TypeError) before any append
Raise == [raised |-> TRUE, out |-> <<>>]

\* statements in sequence: the appends made before the first exception stay
RECURSIVE RunSteps(_)
RunSteps(steps) ==
    IF steps = <<>> THEN Ok(<<>>)
    ELSE IF Head(steps).raised THEN Raise
    ELSE LET rest == RunSteps(Tail(steps))
         IN [raised |-> rest.raised, out |-> Head(steps).out \o rest.out]

----------------------------------------------------------------------------
(* _validate_israeli_id, _validate_israeli_phone, _validate_time_format *)

\* re.sub(r'\D', '', s)
StripNonDigits(s) == SelectSeq(s, IsDigit)

\* the value _validate_israeli_id returns: False on a wrong length; with 9 digits
\* the function body ends without a return statement, which yields None
ValidateIsraeliId(id_number) ==
    LET id_clean == StripNonDigits(id_number)
    IN IF Len(id_clean) # 9 THEN PyBool(FALSE) ELSE PyNone

IsDigitOrPlus(c) == IsDigit(c) \/ c = "+"

\* re.sub(r'[^\d+]', '', s)
StripPhone(s) == SelectSeq(s, IsDigitOrPlus)

\* the country code or the trunk zero removed, the first that applies
DropPhonePrefix(phone_clean) ==
    IF StartsWith(phone_clean, <<"+", "9", "7", "2">>) THEN DropFirst(phone_clean, 4)
    ELSE IF StartsWith(phone_clean, <<"9", "7", "2">>) THEN DropFirst(phone_clean, 3)
    ELSE IF StartsWith(phone_clean, <<"0">>) THEN DropFirst(phone_clean, 1)
    ELSE phone_clean

\* a plausible slip: the ten digits of the national format, trunk zero included
MobileRuleTenDigits(phone_clean) ==
    Len(phone_clean) \in {9, 10} /\ StartsWith(phone_clean, <<"5">>)

MobileRule(phone_clean) == Len(phone_clean) = 9 /\ StartsWith(phone_clean, <<"5">>)

LandlineRule(phone_clean) ==
    Len(phone_clean) \in {8, 9} /\ ~StartsWith(phone_clean, <<"5">>)

ValidateIsraeliPhone(phone, is_mobile) ==
    LET phone_clean == DropPhonePrefix(StripPhone(phone))
    IN IF is_mobile THEN MobileRule(phone_clean) ELSE LandlineRule(phone_clean)

\* ^\d{1,2}<sep>\d{2}$
MatchHourMinute(t, sep) ==
    \E h \in 1..2 :
        /\ Len(t) = h + 3
        /\ \A i \in 1..h : IsDigit(t[i])
        /\ t[h + 1] = sep
        /\ IsDigit(t[h + 2]) /\ IsDigit(t[h + 3])

\* ^\d{1,2}:\d{2}:\d{2}$
MatchHourMinuteSecond(t) ==
    \E h \in 1..2 :
        /\ Len(t) = h + 6
        /\ \A i \in 1..h : IsDigit(t[i])
        /\ t[h + 1] = ":"
        /\ IsDigit(t[h + 2]) /\ IsDigit(t[h + 3])
        /\ t[h + 4] = ":"
        /\ IsDigit(t[h + 5]) /\ IsDigit(t[h + 6])

\* a plausible slip: the two patterns the docstring names, without H:MM:SS
ValidateTimeFormatNoSeconds(time_str) ==
    MatchHourMinute(StrStrip(time_str), ":") \/ MatchHourMinute(StrStrip(time_str), ".")

ValidateTimeFormat(time_str) ==
    LET t == StrStrip(time_str)
    IN \/ MatchHourMinute(t, ":")
       \/ MatchHourMinute(t, ".")
       \/ MatchHourMinuteSecond(t)

----------------------------------------------------------------------------
(* _validate_date_object *)

\* datetime._is_leap
IsLeap(y) == y % 4 = 0 /\ (y % 100 # 0 \/ y % 400 = 0)

\* datetime._days_in_month
DaysInMonth(y, m) ==
    IF m = 2 THEN (IF IsLeap(y) THEN 29 ELSE 28)
    ELSE IF m \in {4, 6, 9, 11} THEN 30
    ELSE 31

\* datetime(y, m, d) is constructed (no ValueError)
DatetimeOk(y, m, d) ==
    /\ 1 <= y /\ y <= 9999
    /\ 1 <= m /\ m <= 12
    /\ 1 <= d /\ d <= DaysInMonth(y, m)

\* a plausible slip: the datetime is never constructed
CalendarCheckSkipped(y, m, d) == <<TRUE, "Valid date">>

\* the last step of the try block: a real date or ValueError
CalendarCheck(y, m, d) ==
    IF DatetimeOk(y, m, d) THEN <<TRUE, "Valid date">>
    ELSE <<FALSE, "Invalid date format">>

\* a plausible slip: the month is checked before the day
RangeCheckMonthFirst(y, m, d, this_year) ==
    IF ~(1 <= m /\ m <= 12) THEN <<FALSE, "Invalid month">>
    ELSE IF ~(1 <= d /\ d <= 31) THEN <<FALSE, "Invalid day">>
    ELSE IF ~(1900 <= y /\ y <= this_year + 1) THEN <<FALSE, "Invalid year">>
    ELSE CalendarCheck(y, m, d)

\* the range checks, in the order day, month, year
RangeCheck(y, m, d, this_year) ==
    IF ~(1 <= d /\ d <= 31) THEN <<FALSE, "Invalid day">>
    ELSE IF ~(1 <= m /\ m <= 12) THEN <<FALSE, "Invalid month">>
    ELSE IF ~(1900 <= y /\ y <= this_year + 1) THEN <<FALSE, "Invalid year">>
    ELSE CalendarCheck(y, m, d)

\* (is_valid, message); this_year is datetime.now().year
ValidateDateObject(date_obj, this_year) ==
    LET day == Get(date_obj, "day", PyStr(<<>>))
        month == Get(date_obj, "month", PyStr(<<>>))
        year == Get(date_obj, "year", PyStr(<<>>))
    IN IF ~(Truthy(day) /\ Truthy(month) /\ Truthy(year))
       THEN <<FALSE, "Incomplete date information">>
       ELSE IF ~(IntOf(day).ok /\ IntOf(month).ok /\ IntOf(year).ok)
       THEN <<FALSE, "Invalid date format">>
       ELSE RangeCheck(IntOf(year).n, IntOf(month).n, IntOf(day).n, this_year)

----------------------------------------------------------------------------
(* _validate_personal_info *)

\* the ID check: only for a truthy value; re.sub raises TypeError on a non-string
IdStep(d) ==
    LET id_number == Get(d, "idNumber", PyStr(<<>>))
    IN IF ~Truthy(id_number) THEN Ok(<<>>)
       ELSE IF ~IsStr(id_number) THEN Raise
       ELSE LET is_valid_id == ValidateIsraeliId(id_number.s)
            IN Ok(<<Finding("idNumber", id_number, is_valid_id,
                            IF Truthy(is_valid_id) THEN "Valid Israeli ID format"
                            ELSE "Invalid Israeli ID format")>>)

\* a plausible slip: data[field] where data.get(field, '') is meant (KeyError)
NonBlankStepNoDefault(d, field, provided, missing) ==
    IF field \notin DOMAIN d THEN Raise
    ELSE IF ~IsStr(d[field]) THEN Raise
    ELSE Ok(<<Finding(field, d[field], PyBool(Len(StrStrip(d[field].s)) > 0),
                      IF StrStrip(d[field].s) # <<>> THEN provided ELSE missing)>>)

\* a check `len(v.strip()) > 0`: AttributeError when v has no strip()
NonBlankStep(d, field, provided, missing) ==
    LET v == Get(d, field, PyStr(<<>>))
    IN IF ~IsStr(v) THEN Raise
       ELSE Ok(<<Finding(field, v, PyBool(Len(StrStrip(v.s)) > 0),
                         IF StrStrip(v.s) # <<>> THEN provided ELSE missing)>>)

valid_genders ==
    << <<"zayin", "kaf", "resh">>, <<"nun", "qof", "bet", "he">>,
       <<"m", "a", "l", "e">>, <<"f", "e", "m", "a", "l", "e">>,
       <<"M">>, <<"F">>, <<"zayin">>, <<"nun">> >>

\* x in list
InList(x, list) == \E i \in 1..Len(list) : list[i] = x

\* a plausible slip: the comparison made without regard to case
LowerChar(c) ==
    CASE c = "M" -> "m" [] c = "F" -> "f" [] c = "A" -> "a" [] c = "L" -> "l"
      [] c = "E" -> "e" [] OTHER -> c

GenderStepAnyCase(d) ==
    LET gender == Get(d, "gender", PyStr(<<>>))
    IN IF ~IsStr(gender) THEN Raise
       ELSE LET lower(s) == [j \in 1..Len(s) |-> LowerChar(s[j])]
                is_valid_gender ==
                    \E i \in 1..Len(valid_genders) :
                        lower(valid_genders[i]) = lower(StrStrip(gender.s))
            IN Ok(<<Finding("gender", gender, PyBool(is_valid_gender),
                            IF is_valid_gender THEN "Valid gender value"
                            ELSE "Invalid or missing gender")>>)

GenderStep(d) ==
    LET gender == Get(d, "gender", PyStr(<<>>))
    IN IF ~IsStr(gender) THEN Raise
       ELSE LET is_valid_gender == InList(StrStrip(gender.s), valid_genders)
            IN Ok(<<Finding("gender", gender, PyBool(is_valid_gender),
                            IF is_valid_gender THEN "Valid gender value"
                            ELSE "Invalid or missing gender")>>)

\* a plausible slip: the ID check moved behind the checks that always run
ValidatePersonalInfoIdLast(d) ==
    RunSteps(<<NonBlankStep(d, "firstName", "First name provided", "First name missing"),
               NonBlankStep(d, "lastName", "Last name provided", "Last name missing"),
               GenderStep(d),
               IdStep(d)>>)

ValidatePersonalInfo(d) ==
    RunSteps(<<IdStep(d),
               NonBlankStep(d, "firstName", "First name provided", "First name missing"),
               NonBlankStep(d, "lastName", "Last name provided", "Last name missing"),
               GenderStep(d)>>)

----------------------------------------------------------------------------
(* _validate_dates *)

date_fields ==
    << <<"dateOfBirth", "Date of birth">>,
       <<"dateOfInjury", "Date of injury">>,
       <<"formFillingDate", "Form filling date">>,
       <<"formReceiptDateAtClinic", "Form receipt date">> >>

\* f"{day}/{month}/{year}"
DateValue(date_obj) ==
    PyStr(Fmt(Get(date_obj, "day", PyStr(<<>>))) \o <<"/">>
          \o Fmt(Get(date_obj, "month", PyStr(<<>>))) \o <<"/">>
          \o Fmt(Get(date_obj, "year", PyStr(<<>>))))

\* a plausible slip: no isinstance test, so that date_obj.get raises
\* AttributeError on a value that is no dict
DateStepUnguarded(d, field_name, field_label, this_year) ==
    LET date_obj == Get(d, field_name, PyDict(EmptyMap))
    IN IF IsDict(date_obj)
       THEN LET res == ValidateDateObject(date_obj.d, this_year)
            IN Ok(<<Finding(field_name, DateValue(date_obj.d), PyBool(res[1]),
                            field_label \o ": " \o res[2])>>)
       ELSE Raise

\* one turn of the loop: a finding when the field is a dict, nothing otherwise
DateStep(d, field_name, field_label, this_year) ==
    LET date_obj == Get(d, field_name, PyDict(EmptyMap))
    IN IF IsDict(date_obj)
       THEN LET res == ValidateDateObject(date_obj.d, this_year)
            IN Ok(<<Finding(field_name, DateValue(date_obj.d), PyBool(res[1]),
                            field_label \o ": " \o res[2])>>)
       ELSE Ok(<<>>)

ValidateDates(d, this_year) ==
    RunSteps([k \in 1..Len(date_fields) |->
                 DateStep(d, date_fields[k][1], date_fields[k][2], this_year)])

----------------------------------------------------------------------------
(* _validate_contact_info *)

\* a phone check: only for a truthy value; re.sub raises TypeError on a non-string
PhoneStep(d, field, is_mobile, good, bad) ==
    LET phone == Get(d, field, PyStr(<<>>))
    IN IF ~Truthy(phone) THEN Ok(<<>>)
       ELSE IF ~IsStr(phone) THEN Raise
       ELSE LET is_valid == ValidateIsraeliPhone(phone.s, is_mobile)
            IN Ok(<<Finding(field, phone, PyBool(is_valid),
                            IF is_valid THEN good ELSE bad)>>)

\* a plausible slip: the value rendered from the trimmed parts
AddressValueTrimmed(address) ==
    PyStr(StrStrip(Fmt(Get(address, "street", PyStr(<<>>)))) \o <<" ">>
          \o StrStrip(Fmt(Get(address, "houseNumber", PyStr(<<>>)))) \o <<",", " ">>
          \o StrStrip(Fmt(Get(address, "city", PyStr(<<>>)))))

\* f"{street} {houseNumber}, {city}"
AddressValue(address) ==
    PyStr(Fmt(Get(address, "street", PyStr(<<>>))) \o <<" ">>
          \o Fmt(Get(address, "houseNumber", PyStr(<<>>))) \o <<",", " ">>
          \o Fmt(Get(address, "city", PyStr(<<>>))))

\* a plausible slip: no default for an absent address, which is then no dict
AddressStepNoDefault(d) ==
    IF "address" \notin DOMAIN d \/ ~IsDict(d.address) THEN Ok(<<>>)
    ELSE LET street == Get(d.address.d, "street", PyStr(<<>>))
             city == Get(d.address.d, "city", PyStr(<<>>))
         IN IF ~IsStr(street) \/ ~IsStr(city) THEN Raise
            ELSE Ok(<<Finding("address", AddressValue(d.address.d),
                              PyBool(StrStrip(street.s) # <<>> /\ StrStrip(city.s) # <<>>),
                              IF StrStrip(street.s) # <<>> /\ StrStrip(city.s) # <<>>
                              THEN "Address has street and city"
                              ELSE "Incomplete address information")>>)

AddressStep(d) ==
    LET address == Get(d, "address", PyDict(EmptyMap))
    IN IF ~IsDict(address) THEN Ok(<<>>)
       ELSE LET street == Get(address.d, "street", PyStr(<<>>))
                city == Get(address.d, "city", PyStr(<<>>))
            IN IF ~IsStr(street) \/ ~IsStr(city) THEN Raise
               ELSE LET has_street == StrStrip(street.s) # <<>>
                        has_city == StrStrip(city.s) # <<>>
                    IN Ok(<<Finding("address", AddressValue(address.d),
                                    PyBool(has_street /\ has_city),
                                    IF has_street /\ has_city
                                    THEN "Address has street and city"
                                    ELSE "Incomplete address information")>>)

ValidateContactInfo(d) ==
    RunSteps(<<PhoneStep(d, "landlinePhone", FALSE,
                         "Valid landline format", "Invalid landline format"),
               PhoneStep(d, "mobilePhone", TRUE,
                         "Valid mobile format", "Invalid mobile format"),
               AddressStep(d)>>)

----------------------------------------------------------------------------
(* _validate_accident_info *)

\* a plausible slip: ten characters accepted
DescriptionStepTenSuffices(d) ==
    LET description == Get(d, "accidentDescription", PyStr(<<>>))
    IN IF ~IsStr(description) THEN Raise
       ELSE Ok(<<Finding("accidentDescription", description,
                         PyBool(Len(StrStrip(description.s)) >= 10),
                         IF Len(StrStrip(description.s)) >= 10
                         THEN "Adequate accident description"
                         ELSE "Missing or insufficient accident description")>>)

DescriptionStep(d) ==
    LET description == Get(d, "accidentDescription", PyStr(<<>>))
    IN IF ~IsStr(description) THEN Raise
       ELSE Ok(<<Finding("accidentDescription", description,
                         PyBool(Len(StrStrip(description.s)) > 10),
                         IF Len(StrStrip(description.s)) > 10
                         THEN "Adequate accident description"
                         ELSE "Missing or insufficient accident description")>>)

\* a plausible slip: the presence of the key tested where the truth of the value
\* is meant
TimeStepIfPresent(d) ==
    IF "timeOfInjury" \notin DOMAIN d THEN Ok(<<>>)
    ELSE IF ~IsStr(d.timeOfInjury) THEN Raise
    ELSE LET is_valid_time == ValidateTimeFormat(d.timeOfInjury.s)
         IN Ok(<<Finding("timeOfInjury", d.timeOfInjury, PyBool(is_valid_time),
                         IF is_valid_time THEN "Valid time format"
                         ELSE "Invalid time format")>>)

\* the time check: only for a truthy value; AttributeError on a non-string
TimeStep(d) ==
    LET time_of_injury == Get(d, "timeOfInjury", PyStr(<<>>))
    IN IF ~Truthy(time_of_injury) THEN Ok(<<>>)
       ELSE IF ~IsStr(time_of_injury) THEN Raise
       ELSE LET is_valid_time == ValidateTimeFormat(time_of_injury.s)
            IN Ok(<<Finding("timeOfInjury", time_of_injury, PyBool(is_valid_time),
                            IF is_valid_time THEN "Valid time format"
                            ELSE "Invalid time format")>>)

ValidateAccidentInfo(d) ==
    RunSteps(<<DescriptionStep(d),
               NonBlankStep(d, "injuredBodyPart", "Injured body part specified",
                            "Injured body part not specified"),
               TimeStep(d)>>)

----------------------------------------------------------------------------
(* _calculate_completeness, _generate_summary and the report *)

\* a plausible slip: the value taken as it is, not trimmed
StrNonBlankUntrimmed(value) == TRUE

\* `str(value).strip()` is non-empty: the rendering of a value that is not a
\* string always holds a character that is not a blank
StrNonBlank(value) == IF IsStr(value) THEN StrStrip(value.s) # <<>> ELSE TRUE

\* count_fields over the items `keys` of the dict d: <<total_fields, filled_fields>>
RECURSIVE CountFields(_, _)
CountFields(d, keys) ==
    IF keys = {} THEN <<0, 0>>
    ELSE LET key == CHOOSE k \in keys : TRUE
             value == d[key]
             here == IF IsDict(value) THEN CountFields(value.d, DOMAIN value.d)
                     ELSE <<1, IF Truthy(value) /\ StrNonBlank(value) THEN 1 ELSE 0>>
             rest == CountFields(d, keys \ {key})
         IN <<here[1] + rest[1], here[2] + rest[2]>>

\* filled_fields / total_fields * 100 as the exact fraction num / den
Percentage(filled_fields, total_fields) ==
    IF total_fields > 0 THEN [num |-> filled_fields * 100, den |-> total_fields]
    ELSE [num |-> 0, den |-> 1]

CalculateCompleteness(d) ==
    LET c == CountFields(d, DOMAIN d)
    IN Percentage(c[2], c[1])

\* [result for result in results if not result['valid']]
Issues(results) == SelectSeq(results, LAMBDA r : ~Truthy(r.valid))

\* the "- field: message\n" lines of issues[:5]
RECURSIVE IssueLines(_)
IssueLines(issues) ==
    IF issues = <<>> THEN ""
    ELSE "- " \o Head(issues).field \o ": " \o Head(issues).message \o "\n"
         \o IssueLines(Tail(issues))

\* a plausible slip: the trailer from five issues on, not from six
GenerateSummaryFromFive(results) ==
    LET issues == Issues(results)
        shown == SubSeq(issues, 1, IF Len(issues) < 5 THEN Len(issues) ELSE 5)
    IN IF issues = <<>> THEN "All validations passed successfully."
       ELSE "Found " \o ToString(Len(issues)) \o " validation issues:\n"
            \o IssueLines(shown)
            \o (IF Len(issues) >= 5
                THEN "... and " \o ToString(Len(issues) - 5) \o " more issues."
                ELSE "")

GenerateSummary(results) ==
    LET issues == Issues(results)
        shown == SubSeq(issues, 1, IF Len(issues) < 5 THEN Len(issues) ELSE 5)
    IN IF issues = <<>> THEN "All validations passed successfully."
       ELSE "Found " \o ToString(Len(issues)) \o " validation issues:\n"
            \o IssueLines(shown)
            \o (IF Len(issues) > 5
                THEN "... and " \o ToString(Len(issues) - 5) \o " more issues."
                ELSE "")

\* a plausible slip: every finding not flagged False counts as passed
PassedChecksNotFalse(results) ==
    Len(SelectSeq(results, LAMBDA r : r.valid # PyBool(FALSE)))

\* sum(1 for result in results if result['valid'])
PassedChecks(results) == Len(SelectSeq(results, LAMBDA r : Truthy(r.valid)))

\* a plausible slip: the third decimal cut off, not rounded
OverallScoreTruncated(passed_checks, total_checks) ==
    IF total_checks > 0 THEN (passed_checks * 10000) \div total_checks ELSE 0

\* a plausible slip: the quotient upside down
OverallScoreSwapped(passed_checks, total_checks) ==
    IF passed_checks > 0
    THEN (2 * total_checks * 10000 + passed_checks) \div (2 * passed_checks)
    ELSE 0

\* round(passed / total * 100, 2) in hundredths of a percent, 0 without checks;
\* no quotient of two counts below 32 lies halfway between two hundredths
OverallScore(passed_checks, total_checks) ==
    IF total_checks > 0
    THEN (2 * passed_checks * 10000 + total_checks) \div (2 * total_checks)
    ELSE 0

\* the dict validate_extracted_data returns; validation_details is the list object
\* self.validation_results refers to, not a copy
Report(ref, results, d) ==
    [overall_score |-> OverallScore(PassedChecks(results), Len(results)),
     total_checks |-> Len(results),
     passed_checks |-> PassedChecks(results),
     validation_details |-> ref,
     completeness_score |-> CalculateCompleteness(d),
     summary |-> GenerateSummary(results)]

\* DataValidator().validate_extracted_data(d), run from its first statement to
\* its last with nothing between: the findings and the report, or the exception
FreshInstanceCall(d, this_year) ==
    LET res == RunSteps(<<ValidatePersonalInfo(d), ValidateDates(d, this_year),
                          ValidateContactInfo(d), ValidateAccidentInfo(d)>>)
    IN IF res.raised THEN [raised |-> TRUE]
       ELSE [raised |-> FALSE,
             report |-> [Report(0, res.out, d) EXCEPT !.validation_details = res.out]]

----------------------------------------------------------------------------
(* The state machine: DataValidator instances and the calls on them *)

BaseYear == 2024

MaxYearTicks == 1

NoReport == [none |-> TRUE]

\* what the caller is left with: the report, or the exception that reached it
Outcome(i, raised, report) ==
    [data |-> data[i], year |-> now_year[i], raised |-> raised, report |-> report]

\* __init__ of n instances: each binds an empty list
InitOf(n) ==
    /\ heap = [i \in 1..n |-> <<>>]
    /\ validation_results = [i \in 1..n |-> i]
    /\ pc = [i \in 1..n |-> "idle"]
    /\ data = [i \in 1..n |-> EmptyMap]
    /\ now_year = [i \in 1..n |-> 0]
    /\ calls = [i \in 1..n |-> <<>>]
    /\ current_year = BaseYear

\* a plausible slip: the list of the last call is kept
ResetResultsForgotten(i) == UNCHANGED <<heap, validation_results>>

\* a plausible slip: the list is renewed when a call returns, so that a call
\* after one that raised goes on with the list that one left
ResetResultsUnlessRaised(i) ==
    IF calls[i] # <<>> /\ calls[i][Len(calls[i])].raised
    THEN UNCHANGED <<heap, validation_results>>
    ELSE /\ heap' = Append(heap, <<>>)
         /\ validation_results' = [validation_results EXCEPT ![i] = Len(heap) + 1]

\* a plausible slip: self.validation_results.clear(), the list object kept
ResetResultsCleared(i) ==
    /\ heap' = [heap EXCEPT ![validation_results[i]] = <<>>]
    /\ UNCHANGED validation_results

\* self.validation_results = []: a new list object is bound
ResetResults(i) ==
    /\ heap' = Append(heap, <<>>)
    /\ validation_results' = [validation_results EXCEPT ![i] = Len(heap) + 1]

\* validate_extracted_data(d) is entered on instance i
Enter(i, d) ==
    /\ pc[i] = "idle"
    /\ ResetResults(i)
    /\ data' = [data EXCEPT ![i] = d]
    /\ now_year' = [now_year EXCEPT ![i] = 0]
    /\ pc' = [pc EXCEPT ![i] = "personal"]
    /\ UNCHANGED <<calls, current_year>>

\* a plausible slip: one buffer for all instances (a list of the module or of
\* the class, cleared by each call), here the list bound last
GroupSharedBuffer(i, next, res) ==
    /\ heap' = [heap EXCEPT ![Len(heap)] = @ \o res.out]
    /\ IF res.raised
       THEN /\ pc' = [pc EXCEPT ![i] = "idle"]
            /\ calls' = [calls EXCEPT ![i] = Append(@, Outcome(i, TRUE, NoReport))]
       ELSE /\ pc' = [pc EXCEPT ![i] = next]
            /\ UNCHANGED calls
    /\ UNCHANGED <<validation_results, data, current_year>>

\* one _validate_* method ran with result res: its appends, then the next
\* method, or its exception ends the call
Group(i, next, res) ==
    /\ heap' = [heap EXCEPT ![validation_results[i]] = @ \o res.out]
    /\ IF res.raised
       THEN /\ pc' = [pc EXCEPT ![i] = "idle"]
            /\ calls' = [calls EXCEPT ![i] = Append(@, Outcome(i, TRUE, NoReport))]
       ELSE /\ pc' = [pc EXCEPT ![i] = next]
            /\ UNCHANGED calls
    /\ UNCHANGED <<validation_results, data, current_year>>

CallPersonalInfo(i) ==
    /\ pc[i] = "personal"
    /\ Group(i, "dates", ValidatePersonalInfo(data[i]))
    /\ UNCHANGED now_year

CallDates(i) ==
    /\ pc[i] = "dates"
    /\ now_year' = [now_year EXCEPT ![i] = current_year]
    /\ Group(i, "contact", ValidateDates(data[i], current_year))

CallContactInfo(i) ==
    /\ pc[i] = "contact"
    /\ Group(i, "accident", ValidateContactInfo(data[i]))
    /\ UNCHANGED now_year

CallAccidentInfo(i) ==
    /\ pc[i] = "accident"
    /\ Group(i, "report", ValidateAccidentInfo(data[i]))
    /\ UNCHANGED now_year

\* the scores are computed and the report is returned
Return(i) ==
    /\ pc[i] = "report"
    /\ pc' = [pc EXCEPT ![i] = "idle"]
    /\ calls' = [calls EXCEPT ![i] =
                    Append(@, Outcome(i, FALSE,
                                      Report(validation_results[i],
                                             heap[validation_results[i]], data[i])))]
    /\ UNCHANGED <<heap, validation_results, data, now_year, current_year>>

\* the clock passes midnight of 31 December
NewYear ==
    /\ current_year < BaseYear + MaxYearTicks
    /\ current_year' = current_year + 1
    /\ UNCHANGED <<heap, validation_results, pc, data, now_year, calls>>

----------------------------------------------------------------------------
(* The records validate_extracted_data is called with *)

\* d with key k bound to v
With(d, k, v) == [x \in DOMAIN d \cup {k} |-> IF x = k THEN v ELSE d[x]]

\* d without the keys ks
Without(d, ks) == [x \in DOMAIN d \ ks |-> d[x]]

Blank == PyStr(<<>>)

\* FieldExtractor._get_empty_structure: what extract_fields returns on a failure
EmptyStructure ==
    [lastName |-> Blank, firstName |-> Blank, idNumber |-> Blank, gender |-> Blank,
     dateOfBirth |-> PyDict([day |-> Blank, month |-> Blank, year |-> Blank]),
     address |-> PyDict([street |-> Blank, houseNumber |-> Blank, entrance |-> Blank,
                         apartment |-> Blank, city |-> Blank, postalCode |-> Blank,
                         poBox |-> Blank]),
     landlinePhone |-> Blank, mobilePhone |-> Blank, jobType |-> Blank,
     dateOfInjury |-> PyDict([day |-> Blank, month |-> Blank, year |-> Blank]),
     timeOfInjury |-> Blank, accidentLocation |-> Blank, accidentAddress |-> Blank,
     accidentDescription |-> Blank, injuredBodyPart |-> Blank, signature |-> Blank,
     formFillingDate |-> PyDict([day |-> Blank, month |-> Blank, year |-> Blank]),
     formReceiptDateAtClinic |-> PyDict([day |-> Blank, month |-> Blank, year |-> Blank]),
     medicalInstitutionFields |-> PyDict([healthFundMember |-> Blank,
                                          natureOfAccident |-> Blank,
                                          medicalDiagnoses |-> Blank])]

\* a record of the same schema in which every check passes once the ID check does
FullRecord ==
    [lastName |-> PyStr(<<"L", "e", "v", "i">>), firstName |-> PyStr(<<"D", "a", "n">>),
     idNumber |-> PyStr(<<"1", "2", "3", "4", "5", "6", "7", "8", "9">>), gender |-> PyStr(<<"M">>),
     dateOfBirth |-> PyDict([day |-> PyStr(<<"1", "5">>), month |-> PyStr(<<"6">>), year |-> PyStr(<<"1", "9", "9", "0">>)]),
     address |-> PyDict([street |-> PyStr(<<"H", "e", "r", "z", "l">>), houseNumber |-> PyStr(<<"7">>),
                         entrance |-> Blank, apartment |-> Blank, city |-> PyStr(<<"H", "a", "i", "f", "a">>),
                         postalCode |-> Blank, poBox |-> Blank]),
     landlinePhone |-> PyStr(<<"0", "2", "1", "2", "3", "4", "5", "6", "7">>), mobilePhone |-> PyStr(<<"0", "5", "0", "-", "1", "2", "3", "4", "5", "6", "7">>),
     jobType |-> PyStr(<<"c", "o", "o", "k">>),
     dateOfInjury |-> PyDict([day |-> PyStr(<<"1">>), month |-> PyStr(<<"2">>), year |-> PyStr(<<"2", "0", "2", "4">>)]),
     timeOfInjury |-> PyStr(<<"9", ":", "3", "0">>), accidentLocation |-> Blank,
     accidentAddress |-> Blank,
     accidentDescription |-> PyStr(<<"f", "e", "l", "l", " ", "o", "n", " ", "a", "r", "m">>),
     injuredBodyPart |-> PyStr(<<"a", "r", "m">>), signature |-> Blank,
     formFillingDate |-> PyDict([day |-> PyStr(<<"2">>), month |-> PyStr(<<"2">>), year |-> PyStr(<<"2", "0", "2", "4">>)]),
     formReceiptDateAtClinic |-> PyDict([day |-> PyStr(<<"3">>), month |-> PyStr(<<"2">>), year |-> PyStr(<<"2", "0", "2", "4">>)]),
     medicalInstitutionFields |-> PyDict([healthFundMember |-> Blank,
                                          natureOfAccident |-> Blank,
                                          medicalDiagnoses |-> Blank])]

(* Records with one value of a wrong type *)

StringFields ==
    {"firstName", "lastName", "gender", "idNumber", "landlinePhone", "mobilePhone",
     "accidentDescription", "injuredBodyPart", "timeOfInjury"}

BadValues ==
    {PyNone, PyInt(0), PyInt(7), PyBool(TRUE), PyDict(EmptyMap),
     PyDict([a |-> PyStr(<<"b">>)]), PyList(<<>>), PyList(<<PyStr(<<"b">>)>>)}

BadFieldRecords ==
    {With(base, f, v) : base \in {FullRecord, EmptyStructure}, f \in StringFields,
                        v \in BadValues}

BadAddressRecords ==
    {With(base, "address", PyDict(With(base.address.d, f, v))) :
        base \in {FullRecord, EmptyStructure}, f \in {"street", "city"}, v \in BadValues}

TypeRecords == BadFieldRecords \cup BadAddressRecords

(* Well-typed records with fields absent or empty *)

ConditionalFields == {"idNumber", "landlinePhone", "mobilePhone", "timeOfInjury"}

AlwaysFields ==
    {"firstName", "lastName", "gender", "dateOfBirth", "dateOfInjury",
     "formFillingDate", "formReceiptDateAtClinic", "address", "accidentDescription",
     "injuredBodyPart"}

\* FullRecord with the fields `empty` as in the empty structure and `absent` left out
Partial(empty, absent) ==
    Without([f \in DOMAIN FullRecord |->
                IF f \in empty THEN EmptyStructure[f] ELSE FullRecord[f]], absent)

PartialRecords ==
    {Partial(empty \cup e, absent \cup a) :
        empty \in SUBSET ConditionalFields, absent \in SUBSET ConditionalFields,
        e \in {{}, AlwaysFields}, a \in {{}, AlwaysFields}}
    \cup {Partial({f}, {}) : f \in DOMAIN FullRecord}
    \cup {Partial({}, {f}) : f \in DOMAIN FullRecord}
    \cup {EmptyStructure, EmptyMap}

(* ID numbers: 1 to MaxIdDigits digits, bare, grouped by dashes, padded, lettered *)

MaxIdDigits == 10

\* the digits 1, 2, ..., 9, 0, 1, ...
IdPlain(n) == [i \in 1..n |-> DigitChar(i % 10)]

\* a dash after every third digit but the last
RECURSIVE IdDashed(_)
IdDashed(n) ==
    IF n = 0 THEN <<>>
    ELSE IdDashed(n - 1)
         \o (IF n > 1 /\ (n - 1) % 3 = 0 THEN <<"-">> ELSE <<>>)
         \o <<DigitChar(n % 10)>>

IdStrings ==
    UNION {{IdPlain(n), IdDashed(n), <<" ">> \o IdPlain(n) \o <<" ">>,
            IdPlain(n) \o <<"x">>} : n \in 1..MaxIdDigits}
    \cup {<<"-">>, <<"x", "y">>}

IdRecords == {With(FullRecord, "idNumber", PyStr(s)) : s \in IdStrings}

(* Phone numbers: a prefix, a leading digit, a separator and up to MaxPhoneTail
   further digits *)

MaxPhoneTail == 9

PhonePrefixes ==
    {<<>>, <<"0">>, <<"9", "7", "2">>, <<"+", "9", "7", "2">>, <<"0", "0">>,
     <<"9", "7", "2", "0">>, <<"+", "9", "7", "2", "0">>}

PhoneTail(k) == [i \in 1..k |-> DigitChar((i - 1) % 10)]

PhoneStrings ==
    {prefix \o lead \o sep \o PhoneTail(k) :
        prefix \in PhonePrefixes, lead \in {<<"5">>, <<"2">>},
        sep \in {<<>>, <<"-">>, <<"+">>}, k \in (MaxPhoneTail - 3)..MaxPhoneTail}
    \cup {<<"0", "5", "0", "-", "1", "2", "3", "4", "5", "6", "7">>,
          <<"0", "2", "1", "2", "3", "4", "5", "6", "7">>,
          <<"0", "5", "0", "1", "2", "3", "4", "5", "6", "7">>,
          <<"-">>, <<"+">>, <<"0">>}

PhoneRecords ==
    {With(FullRecord, f, PyStr(s)) : f \in {"landlinePhone", "mobilePhone"},
                                      s \in PhoneStrings}

(* Dates: every combination of the day, month and year values below in
   dateOfBirth, and a few of them in each date field *)

Absent == [t |-> "absent"]

DayValues ==
    {Absent, Blank, PyNone, PyInt(15), PyStr(<<"0">>), PyStr(<<"1">>), PyStr(<<"2", "8">>),
     PyStr(<<"2", "9">>), PyStr(<<"3", "0">>), PyStr(<<"3", "1">>), PyStr(<<"3", "2">>), PyStr(<<" ", "7", " ">>),
     PyStr(<<"x">>)}

MonthValues ==
    {Absent, Blank, PyStr(<<"0">>), PyStr(<<"1">>), PyStr(<<"2">>), PyStr(<<"4">>),
     PyStr(<<"1", "2">>), PyStr(<<"1", "3">>), PyStr(<<"1", "x">>)}

\* the last years around BaseYear + MaxYearTicks + 1, the latest year accepted
YearValues ==
    {Absent, Blank, PyStr(<<"1", "8", "9", "9">>), PyStr(<<"1", "9", "0", "0">>), PyStr(<<"2", "0", "0", "0">>), PyStr(<<"2", "0", "2", "3">>),
     PyStr(<<"-", "5">>)}
    \cup {PyStr(IntToStr(y)) : y \in BaseYear..(BaseYear + MaxYearTicks + 2)}

\* {day, month, year} with the absent components left out
DateObject(day, month, year) ==
    PyDict([k \in {x \in {"day", "month", "year"} :
                     [day |-> day, month |-> month, year |-> year][x] # Absent}
              |-> [day |-> day, month |-> month, year |-> year][k]])

DateObjects ==
    {DateObject(day, month, year) :
        day \in DayValues, month \in MonthValues, year \in YearValues}

FewDateObjects ==
    {DateObject(day, month, PyStr(<<"2", "0", "2", "4">>)) :
        day \in {Blank, PyStr(<<"2", "9">>), PyStr(<<"3", "1">>), PyStr(<<"3", "2">>)},
        month \in {PyStr(<<"2">>), PyStr(<<"4">>), PyStr(<<"1", "3">>)}}

DateRecords ==
    {With(FullRecord, "dateOfBirth", o) : o \in DateObjects}
    \cup {With(FullRecord, date_fields[k][1], o) :
             k \in 1..Len(date_fields), o \in FewDateObjects}
    \cup {With(FullRecord, date_fields[k][1], v) :
             k \in 1..Len(date_fields), v \in {PyNone, Blank, PyList(<<>>), PyStr(<<"1", "/", "2", "/", "2", "0", "2", "4">>)}}

(* Names and body parts: blank, padded *)

NameStrings == {<<" ">>, <<"\t", " ">>, <<" ", "D", " ">>, <<"D">>}

NameRecords ==
    {With(base, f, PyStr(s)) :
        base \in {FullRecord, EmptyStructure},
        f \in {"firstName", "lastName", "injuredBodyPart"}, s \in NameStrings}

(* Genders: the accepted words, padded, in another case, and others *)

GenderStrings ==
    {valid_genders[k] : k \in 1..Len(valid_genders)}
    \cup {<<" ">> \o valid_genders[k] \o <<"\n">> : k \in 1..Len(valid_genders)}
    \cup {<<"m">>, <<"f">>, <<"M", "a", "l", "e">>, <<"M", "A", "L", "E">>, <<"F", "e", "m", "a", "l", "e">>, <<"F", "E", "M", "A", "L", "E">>,
          <<"m", "a", "l", "e", "s">>, <<"M", " ", "F">>, <<"x">>, <<" ">>, <<"zayin", "kaf">>, <<"he">>}

GenderRecords == {With(FullRecord, "gender", PyStr(s)) : s \in GenderStrings}

(* Addresses: every combination of the parts below, and values that are no
   mapping *)

StreetValues == {Absent, Blank, PyStr(<<" ">>), PyStr(<<"H", "e", "r", "z", "l">>), PyStr(<<" ", "H", "e", "r", "z", "l", " ">>)}

HouseNumberValues == {Absent, Blank, PyStr(<<" ">>), PyStr(<<"7">>), PyInt(7), PyNone}

CityValues == {Absent, Blank, PyStr(<<"\t">>), PyStr(<<"H", "a", "i", "f", "a">>), PyStr(<<"H", "a", "i", "f", "a", " ">>)}

ApartmentValues == {Absent, PyStr(<<"3">>)}

\* {street, houseNumber, city, apartment} with the absent parts left out
AddressObject(street, houseNumber, city, apartment) ==
    LET all == [street |-> street, houseNumber |-> houseNumber, city |-> city,
                apartment |-> apartment]
    IN PyDict([k \in {x \in DOMAIN all : all[x] # Absent} |-> all[k]])

AddressObjects ==
    {AddressObject(street, houseNumber, city, apartment) :
        street \in StreetValues, houseNumber \in HouseNumberValues,
        city \in CityValues, apartment \in ApartmentValues}

AddressRecords ==
    {With(FullRecord, "address", o) : o \in AddressObjects}
    \cup {With(FullRecord, "address", v) :
             v \in {PyNone, Blank, PyStr(<<"H", "e", "r", "z", "l", " ", "7", ",", " ", "H", "a", "i", "f", "a">>), PyList(<<>>), PyInt(7)}}

(* Accident descriptions: 0 to MaxDescription characters, bare and padded *)

MaxDescription == 12

\* n characters, a blank in every fourth place but the last
DescriptionText(n) == [i \in 1..n |-> IF i % 4 = 0 /\ i < n THEN " " ELSE "a"]

DescriptionStrings ==
    UNION {{DescriptionText(n), <<" ">> \o DescriptionText(n) \o <<" ", "\n">>,
            DescriptionText(n) \o <<" ">>} : n \in 0..MaxDescription}
    \cup {[i \in 1..MaxDescription |-> " "]}

DescriptionRecords ==
    {With(FullRecord, "accidentDescription", PyStr(s)) : s \in DescriptionStrings}

(* Times: up to MaxTimeDigits digits in each place, ':' or '.' between them,
   two or three places, bare and padded; and a few others *)

MaxTimeDigits == 3

\* n digits, all 9: no hour, minute or second of a clock
Nines(n) == [i \in 1..n |-> "9"]

TimePlaces ==
    {Nines(h) \o sep \o Nines(m) :
        h \in 0..MaxTimeDigits, m \in 1..MaxTimeDigits, sep \in {<<":">>, <<".">>}}

TimeStrings ==
    TimePlaces
    \cup {t \o sep \o Nines(s) :
             t \in TimePlaces, sep \in {<<":">>, <<".">>}, s \in 1..MaxTimeDigits}
    \cup {<<"9", ":", "3", "0">>, <<"0", "9", ":", "3", "0">>, <<"0", "9", ".", "3", "0">>, <<"9", ":", "3", "0", ":", "1", "5">>, <<"2", "3", ":", "5", "9", ":", "5", "9">>, <<" ", "9", ":", "3", "0", " ">>,
          <<"\t", "9", ".", "3", "0", "\n">>, <<"9", " ", ":", "3", "0">>, <<"9", "-", "3", "0">>, <<"9", "3", "0">>, <<"9", ":", "3", "0", "x">>,
          <<"x", "9", ":", "3", "0">>, <<"9", ":", "3", "0", ":">>, <<"9", "h", "3", "0">>, <<"+", "9", ":", "3", "0">>, <<" ">>, <<":">>}

TimeRecords == {With(FullRecord, "timeOfInjury", PyStr(s)) : s \in TimeStrings}

(* Records with 0 to 10 failing findings: the first or the last k of the
   always-run checks failing, no ID given *)

FailingOrder ==
    <<"firstName", "lastName", "gender", "dateOfBirth", "dateOfInjury",
      "formFillingDate", "formReceiptDateAtClinic", "address", "accidentDescription",
      "injuredBodyPart">>

SummaryRecords ==
    {Partial({FailingOrder[j] : j \in 1..k} \cup {"idNumber"}, {}) :
        k \in 0..Len(FailingOrder)}
    \cup {Partial({FailingOrder[j] : j \in (Len(FailingOrder) - k + 1)..Len(FailingOrder)}
                  \cup {"idNumber"}, {}) : k \in 0..Len(FailingOrder)}

(* Records with mappings within mappings, with mappings that hold nothing, and
   with one field that no rule checks *)

DeepMapping ==
    PyDict([healthFundMember |-> PyStr(<<"x">>),
            natureOfAccident |->
                PyDict([a |-> PyStr(<<" ">>),
                        b |-> PyDict([c |-> PyStr(<<"y">>), e |-> Blank])]),
            medicalDiagnoses |-> PyDict(EmptyMap)])

NestedRecords ==
    {With(base, "medicalInstitutionFields", DeepMapping) :
        base \in {FullRecord, EmptyStructure, EmptyMap}}
    \cup {With(EmptyMap, "address", PyDict(EmptyMap)),
          With(EmptyMap, "medicalInstitutionFields",
               PyDict([natureOfAccident |-> PyDict(EmptyMap)])),
          With(EmptyMap, "signature", PyStr(<<"x">>)),
          With(EmptyMap, "signature", PyStr(<<" ">>)),
          With(EmptyStructure, "signature", PyStr(<<"x">>))}

(* Date fields holding a value that is no mapping *)

NonMappingValues ==
    {PyNone, Blank, PyStr(<<"1", "/", "2", "/", "2", "0", "2", "4">>), PyInt(0), PyInt(7), PyBool(TRUE), PyList(<<>>),
     PyList(<<PyStr(<<"1">>), PyStr(<<"2">>), PyStr(<<"2", "0", "2", "4">>)>>)}

NonMappingDateRecords ==
    {With(base, date_fields[k][1], v) :
        base \in {FullRecord, EmptyStructure, EmptyMap}, k \in 1..Len(date_fields),
        v \in NonMappingValues}

Records ==
    TypeRecords \cup PartialRecords \cup IdRecords \cup PhoneRecords \cup DateRecords
    \cup NameRecords \cup GenderRecords \cup AddressRecords \cup DescriptionRecords
    \cup TimeRecords \cup SummaryRecords \cup NestedRecords \cup NonMappingDateRecords

----------------------------------------------------------------------------
(* One instance, one call on it, with any of the records *)

Init == InitOf(1)

FirstCall(i, d) == calls[i] = <<>> /\ Enter(i, d)

Next ==
    \/ \E i \in DOMAIN pc, d \in Records : FirstCall(i, d)
    \/ \E i \in DOMAIN pc : CallPersonalInfo(i)
    \/ \E i \in DOMAIN pc : CallDates(i)
    \/ \E i \in DOMAIN pc : CallContactInfo(i)
    \/ \E i \in DOMAIN pc : CallAccidentInfo(i)
    \/ \E i \in DOMAIN pc : Return(i)
    \/ NewYear

Spec == Init /\ [][Next]_vars

----------------------------------------------------------------------------
(* One instance, up to MaxCalls calls in sequence, with a few records *)

MaxCalls == 2

\* dateOfBirth in the year after next of BaseYear: accepted only once the clock
\* has moved on
NextYearRecord ==
    With(FullRecord, "dateOfBirth",
         PyDict([day |-> PyStr(<<"1">>), month |-> PyStr(<<"1">>),
                 year |-> PyStr(IntToStr(BaseYear + 2))]))

SeqRecords ==
    {FullRecord, EmptyStructure, EmptyMap, NextYearRecord,
     Partial(ConditionalFields, {}),
     With(FullRecord, "lastName", PyNone),
     With(FullRecord, "mobilePhone", PyInt(7)),
     With(EmptyStructure, "accidentDescription", PyNone),
     Partial({}, ConditionalFields),
     Partial({"timeOfInjury"}, {"landlinePhone"}),
     Partial({"landlinePhone"}, {"timeOfInjury"}),
     With(FullRecord, "idNumber", PyStr(<<" ">>)),
     With(FullRecord, "landlinePhone", PyNone),
     With(EmptyStructure, "mobilePhone", FullRecord.mobilePhone),
     With(EmptyMap, "timeOfInjury", PyStr(<<"9", "9", ":", "9", "9">>))}

Call(i, d) == Len(calls[i]) < MaxCalls /\ Enter(i, d)

NextSeq ==
    \/ \E i \in DOMAIN pc, d \in SeqRecords : Call(i, d)
    \/ \E i \in DOMAIN pc : CallPersonalInfo(i)
    \/ \E i \in DOMAIN pc : CallDates(i)
    \/ \E i \in DOMAIN pc : CallContactInfo(i)
    \/ \E i \in DOMAIN pc : CallAccidentInfo(i)
    \/ \E i \in DOMAIN pc : Return(i)
    \/ NewYear

SpecSeq == Init /\ [][NextSeq]_vars

----------------------------------------------------------------------------
(* Up to MaxRuns runs of the app's main at the same time: each creates its
   DataValidator in init_services and validates one record with it, the steps
   of the runs interleaved in any way, all within one year of the clock *)

MaxRuns == 2

\* init_services of one more run: validator = DataValidator()
InitServices ==
    /\ Len(pc) < MaxRuns
    /\ heap' = Append(heap, <<>>)
    /\ validation_results' = Append(validation_results, Len(heap) + 1)
    /\ pc' = Append(pc, "idle")
    /\ data' = Append(data, EmptyMap)
    /\ now_year' = Append(now_year, 0)
    /\ calls' = Append(calls, <<>>)
    /\ UNCHANGED current_year

ParRecords ==
    {EmptyMap, FullRecord, Partial(ConditionalFields, {}),
     With(FullRecord, "lastName", PyNone)}

InitPar == InitOf(0)

NextPar ==
    \/ InitServices
    \/ \E i \in DOMAIN pc, d \in ParRecords : FirstCall(i, d)
    \/ \E i \in DOMAIN pc : CallPersonalInfo(i)
    \/ \E i \in DOMAIN pc : CallDates(i)
    \/ \E i \in DOMAIN pc : CallContactInfo(i)
    \/ \E i \in DOMAIN pc : CallAccidentInfo(i)
    \/ \E i \in DOMAIN pc : Return(i)

SpecPar == InitPar /\ [][NextPar]_vars

----------------------------------------------------------------------------
(* What the claims speak of *)

\* every finished call: its argument, the year it read, its report or exception
AllCalls == UNION {{calls[i][k] : k \in 1..Len(calls[i])} : i \in DOMAIN calls}

Returned == {c \in AllCalls : ~c.raised}

\* the findings the report of call c lists
Details(c) == heap[c.report.validation_details]

FindingsFor(c, field) == SelectSeq(Details(c), LAMBDA f : f.field = field)

\* the value of a field is what the schema of the empty structure has there:
\* a string, or a mapping of strings
FieldTyped(d, k) ==
    IF k \in DOMAIN EmptyStructure /\ IsDict(EmptyStructure[k])
    THEN IsDict(d[k]) /\ \A j \in DOMAIN d[k].d : IsStr(d[k].d[j])
    ELSE IsStr(d[k])

BadFields(d) == {k \in DOMAIN d : ~FieldTyped(d, k)}

WellTyped(d) == BadFields(d) = {}

----------------------------------------------------------------------------
(* C1 - C5: exceptions, the shape of the report, the scores, idempotence *)

\* C1: validate_extracted_data never propagates an exception from a single bad
\* field: a call whose record has one value of a wrong type still returns a report.
C1_NoExceptionFromBadField ==
    \A c \in AllCalls : Cardinality(BadFields(c.data)) = 1 => ~c.raised

ReportKeys ==
    {"overall_score", "completeness_score", "passed_checks", "total_checks",
     "validation_details", "summary"}

\* C2: for a record whose present values are well-typed, with any fields absent
\* or empty, the call returns a report with all six entries and raises nothing;
\* for the all-empty schema record both scores are 0.
C2_WellTypedGivesReport ==
    \A c \in AllCalls :
        WellTyped(c.data) =>
            /\ ~c.raised
            /\ DOMAIN c.report = ReportKeys
            /\ c.report.validation_details \in DOMAIN heap
            /\ (c.data = EmptyStructure =>
                    /\ c.report.overall_score = 0
                    /\ c.report.completeness_score.num = 0
                    /\ c.report.total_checks > 0)

\* a call with the all-empty schema record has returned
C2_Witness ==
    \E c \in Returned : c.data = EmptyStructure /\ c.report.total_checks = 10

\* C3: in every report 0 <= overall_score <= 100 and 0 <= completeness_score <= 100
\* (overall_score in hundredths, completeness_score as the fraction num / den).
C3_ScoresInRange ==
    \A c \in Returned :
        /\ 0 <= c.report.overall_score /\ c.report.overall_score <= 100 * 100
        /\ c.report.completeness_score.den > 0
        /\ 0 <= c.report.completeness_score.num
        /\ c.report.completeness_score.num <= 100 * c.report.completeness_score.den

\* a report with both scores strictly between 0 and 100
C3_Witness ==
    \E c \in Returned :
        /\ 0 < c.report.overall_score /\ c.report.overall_score < 100 * 100
        /\ 0 < c.report.completeness_score.num
        /\ c.report.completeness_score.num < 100 * c.report.completeness_score.den

\* the findings of call c whose valid flag is True
ValidOnes(c) == {j \in 1..Len(Details(c)) : Details(c)[j].valid = PyBool(TRUE)}

\* C4: in every report total_checks is the length of validation_details and
\* passed_checks the number of its findings whose valid flag is true.
C4_CountsMatchDetails ==
    \A c \in Returned :
        /\ c.report.total_checks = Len(Details(c))
        /\ c.report.passed_checks = Cardinality(ValidOnes(c))

\* a report with a finding whose flag is not True beside ones whose flag is
C4_Witness ==
    \E c \in Returned :
        /\ c.report.passed_checks > 0
        /\ c.report.passed_checks < c.report.total_checks
        /\ \E j \in 1..Len(Details(c)) : Details(c)[j].valid = PyNone

\* the report of call c with its findings in place of their list object
Contents(c) ==
    IF c.raised THEN [raised |-> TRUE]
    ELSE [raised |-> FALSE, report |-> [c.report EXCEPT !.validation_details = Details(c)]]

\* C5: two calls on one instance with the same record, the current year being
\* the same, yield identical reports: findings, order, scores, counts, summary.
C5_Idempotent ==
    \A i \in DOMAIN calls :
        \A k1, k2 \in 1..Len(calls[i]) :
            (calls[i][k1].data = calls[i][k2].data /\ calls[i][k1].year = calls[i][k2].year)
                => Contents(calls[i][k1]) = Contents(calls[i][k2])

\* the same record validated twice in the same year, with findings reported
C5_Witness ==
    \E i \in DOMAIN calls :
        \E k1, k2 \in 1..Len(calls[i]) :
            /\ k1 < k2
            /\ calls[i][k1].data = calls[i][k2].data
            /\ calls[i][k1].year = calls[i][k2].year
            /\ ~calls[i][k2].raised
            /\ calls[i][k2].report.total_checks > 0

----------------------------------------------------------------------------
(* C6 - C10: the ID, date and phone rules *)

\* the value of a field of the record, absent fields included
Field(d, k) == IF k \in DOMAIN d THEN d[k] ELSE Absent

NonEmptyStr(v) == v.t = "str" /\ v.s # <<>>

\* how many characters of s the set `chars` holds
CountIn(s, chars) == Cardinality({j \in 1..Len(s) : s[j] \in chars})

\* the finding of `field` in the report of call c is there once, flagged True
\* with message `good`
FlaggedValid(c, field, good) ==
    /\ Len(FindingsFor(c, field)) = 1
    /\ FindingsFor(c, field)[1].valid = PyBool(TRUE)
    /\ FindingsFor(c, field)[1].message = good

\* C6: for a non-empty idNumber the idNumber finding is valid, with message
\* 'Valid Israeli ID format', exactly when 9 digits remain once the characters
\* that are no digits are removed.
C6_IdValidIffNineDigits ==
    \A c \in Returned :
        NonEmptyStr(Field(c.data, "idNumber")) =>
            (FlaggedValid(c, "idNumber", "Valid Israeli ID format")
                <=> CountIn(c.data.idNumber.s, Digits) = 9)

\* the lengths of the months of a year that is no leap year
MonthLengths == <<31, 28, 31, 30, 31, 30, 31, 31, 30, 31, 30, 31>>

GregorianLeap(y) == y % 400 = 0 \/ (y % 4 = 0 /\ y % 100 # 0)

\* day d of month m of year y is a day of the Gregorian calendar
RealDate(y, m, d) ==
    /\ m \in 1..12
    /\ d >= 1
    /\ d <= MonthLengths[m] + (IF m = 2 /\ GregorianLeap(y) THEN 1 ELSE 0)

\* a non-empty string of digits
Numeric(v) == NonEmptyStr(v) /\ \A j \in 1..Len(v.s) : v.s[j] \in Digits

RECURSIVE Decimal(_)
Decimal(s) == IF s = <<>> THEN 0 ELSE 10 * Decimal(SubSeq(s, 1, Len(s) - 1)) + DigitVal(s[Len(s)])

DateFieldNames == {date_fields[k][1] : k \in 1..Len(date_fields)}

\* the day, month and year of date field f of record d, absent ones included
Component(d, f, part) ==
    IF f \in DOMAIN d THEN Field(d[f].d, part) ELSE Absent

\* date field f of record d is a mapping (or absent) whose parts are numeric
\* strings within the ranges, the year up to this_year + 1
NumericInRange(d, f, this_year) ==
    /\ f \in DOMAIN d /\ IsDict(d[f])
    /\ Numeric(Component(d, f, "day")) /\ Numeric(Component(d, f, "month"))
    /\ Numeric(Component(d, f, "year"))
    /\ Decimal(d[f].d.day.s) \in 1..31
    /\ Decimal(d[f].d.month.s) \in 1..12
    /\ Decimal(d[f].d.year.s) \in 1900..(this_year + 1)

DateIs(d, f, day, month, year) ==
    /\ f \in DOMAIN d /\ IsDict(d[f])
    /\ Field(d[f].d, "day") = PyStr(day)
    /\ Field(d[f].d, "month") = PyStr(month)
    /\ Field(d[f].d, "year") = PyStr(year)

\* the one finding of date field f in the report of call c
DateFinding(c, f) == FindingsFor(c, f)[1]

\* C7: a date whose day, month and year are numeric strings within 1..31, 1..12
\* and 1900..current_year+1 has a valid finding exactly when it is a real
\* calendar date; 31/4/2024 and 29/2/2023 are invalid, 29/2/2024 is valid.
C7_ValidIffRealDate ==
    \A c \in Returned : \A f \in DateFieldNames :
        /\ NumericInRange(c.data, f, c.year) =>
              /\ Len(FindingsFor(c, f)) = 1
              /\ DateFinding(c, f).valid \in {PyBool(TRUE), PyBool(FALSE)}
              /\ DateFinding(c, f).valid = PyBool(TRUE)
                    <=> RealDate(Decimal(c.data[f].d.year.s), Decimal(c.data[f].d.month.s),
                                 Decimal(c.data[f].d.day.s))
        /\ DateIs(c.data, f, <<"3", "1">>, <<"4">>, <<"2", "0", "2", "4">>)
              => DateFinding(c, f).valid = PyBool(FALSE)
        /\ DateIs(c.data, f, <<"2", "9">>, <<"2">>, <<"2", "0", "2", "3">>)
              => DateFinding(c, f).valid = PyBool(FALSE)
        /\ DateIs(c.data, f, <<"2", "9">>, <<"2">>, <<"2", "0", "2", "4">>)
              => DateFinding(c, f).valid = PyBool(TRUE)

\* 29 February of a leap year was validated and found valid
C7_Witness ==
    \E c \in Returned :
        /\ DateIs(c.data, "dateOfBirth", <<"2", "9">>, <<"2">>, <<"2", "0", "2", "4">>)
        /\ NumericInRange(c.data, "dateOfBirth", c.year)
        /\ DateFinding(c, "dateOfBirth").valid = PyBool(TRUE)

DateLabel(f) == (CHOOSE k \in 1..Len(date_fields) : date_fields[k][1] = f)

\* the finding of date field f in the report of c is invalid with `message`
DateInvalidWith(c, f, message) ==
    /\ Len(FindingsFor(c, f)) = 1
    /\ DateFinding(c, f).valid = PyBool(FALSE)
    /\ DateFinding(c, f).message = date_fields[DateLabel(f)][2] \o ": " \o message

\* date field f of record d is absent or a mapping whose parts are strings
StringDate(d, f) ==
    f \in DOMAIN d =>
        IsDict(d[f]) /\ \A part \in DOMAIN d[f].d : IsStr(d[f].d[part])

SomePartEmpty(d, f) ==
    \E part \in {"day", "month", "year"} : Component(d, f, part) \in {Absent, Blank}

\* part of date field f reads as an integer outside lo..hi
Outside(d, f, part, lo, hi) ==
    IntOf(Component(d, f, part)).ok /\ IntOf(Component(d, f, part)).n \notin lo..hi

\* part of date field f reads as an integer within lo..hi
Within(d, f, part, lo, hi) ==
    IntOf(Component(d, f, part)).ok /\ IntOf(Component(d, f, part)).n \in lo..hi

\* the message the first failing range check of day, month, year calls for
RangeMessage(c, f) ==
    /\ Outside(c.data, f, "day", 1, 31) => DateInvalidWith(c, f, "Invalid day")
    /\ (Within(c.data, f, "day", 1, 31) /\ Outside(c.data, f, "month", 1, 12))
          => DateInvalidWith(c, f, "Invalid month")
    /\ (/\ Within(c.data, f, "day", 1, 31) /\ Within(c.data, f, "month", 1, 12)
        /\ Outside(c.data, f, "year", 1900, c.year + 1))
          => DateInvalidWith(c, f, "Invalid year")

AllPartsIntegers(d, f) ==
    \A part \in {"day", "month", "year"} : IntOf(Component(d, f, part)).ok

\* C8 as stated: each date field yields a finding, invalid with 'Incomplete date
\* information' when a part is empty or absent, and otherwise invalid with
\* 'Invalid day' / 'Invalid month' / 'Invalid year' when the day is outside
\* 1..31, the month outside 1..12 or the year outside 1900..current_year+1, the
\* first failing of day, month, year deciding.
C8_AsStated ==
    \A c \in Returned : \A f \in DateFieldNames :
        StringDate(c.data, f) =>
            IF SomePartEmpty(c.data, f)
            THEN DateInvalidWith(c, f, "Incomplete date information")
            ELSE RangeMessage(c, f)

\* C8 amended: as stated, the range messages being given when all three parts
\* read as integers; a part that does not gives 'Invalid date format' whatever
\* the ranges of the others.
C8_RangeMessagesForIntegers ==
    \A c \in Returned : \A f \in DateFieldNames :
        StringDate(c.data, f) =>
            IF SomePartEmpty(c.data, f)
            THEN DateInvalidWith(c, f, "Incomplete date information")
            ELSE IF AllPartsIntegers(c.data, f) THEN RangeMessage(c, f)
            ELSE DateInvalidWith(c, f, "Invalid date format")

\* a date with day and month both out of range was reported as 'Invalid day'
C8_Witness ==
    \E c \in Returned :
        /\ DateIs(c.data, "dateOfBirth", <<"3", "2">>, <<"1", "3">>, <<"2", "0", "2", "4">>)
        /\ DateInvalidWith(c, "dateOfBirth", "Invalid day")

\* the characters of s that are digits or '+', in their order
RECURSIVE KeepDialable(_)
KeepDialable(s) ==
    IF s = <<>> THEN <<>>
    ELSE IF Head(s) \in Digits \cup {"+"} THEN <<Head(s)>> \o KeepDialable(Tail(s))
    ELSE KeepDialable(Tail(s))

HasPrefix(s, p) == Len(p) <= Len(s) /\ \A j \in 1..Len(p) : s[j] = p[j]

\* one leading prefix dropped: '+972', else '972', else '0'
Remainder(s) ==
    LET k == KeepDialable(s)
        n == IF HasPrefix(k, <<"+", "9", "7", "2">>) THEN 4
             ELSE IF HasPrefix(k, <<"9", "7", "2">>) THEN 3
             ELSE IF HasPrefix(k, <<"0">>) THEN 1
             ELSE 0
    IN [j \in 1..(Len(k) - n) |-> k[j + n]]

C10_LandlineValidIffEightOrNineDigits ==
    \A c \in Returned :
        /\ NonEmptyStr(Field(c.data, "landlinePhone")) =>
              (FlaggedValid(c, "landlinePhone", "Valid landline format")
                  <=> (/\ CountIn(Remainder(c.data.landlinePhone.s), Digits) \in {8, 9}
                       /\ ~HasPrefix(Remainder(c.data.landlinePhone.s), <<"5">>)))
        /\ Field(c.data, "landlinePhone") = PyStr(<<"0", "2", "1", "2", "3", "4", "5", "6", "7">>)
              => FlaggedValid(c, "landlinePhone", "Valid landline format")
        /\ Field(c.data, "landlinePhone") = PyStr(<<"0", "5", "0", "1", "2", "3", "4", "5", "6", "7">>)
              => ~FlaggedValid(c, "landlinePhone", "Valid landline format")

----------------------------------------------------------------------------
(* C11 - C15: which checks run, the summary, the two scores *)

\* a value that is there and not empty: not '', None, 0 or an empty collection
NonEmptyValue(v) == v # Absent /\ Truthy(v)

\* d without its conditional fields that hold the empty string
Core(d) == Without(d, {f \in ConditionalFields \cap DOMAIN d : d[f] = Blank})

\* C11: each of idNumber, landlinePhone, mobilePhone, timeOfInjury has a finding
\* exactly when its value is non-empty; two records that differ only in
\* conditional fields being absent or the empty string get the same findings,
\* total_checks and overall_score.
C11_ConditionalFindingIffNonEmpty ==
    /\ \A c \in Returned : \A f \in ConditionalFields :
          Len(FindingsFor(c, f)) = (IF NonEmptyValue(Field(c.data, f)) THEN 1 ELSE 0)
    /\ \A c1, c2 \in Returned :
          (Core(c1.data) = Core(c2.data) /\ c1.year = c2.year) =>
              /\ Details(c1) = Details(c2)
              /\ c1.report.total_checks = c2.report.total_checks
              /\ c1.report.overall_score = c2.report.overall_score

\* two records were validated that differ in which conditional field is absent
\* and which is the empty string, a third conditional field having a finding
C11_Witness ==
    \E c1, c2 \in Returned :
        /\ c1.year = c2.year
        /\ Field(c1.data, "timeOfInjury") = Blank /\ Field(c2.data, "timeOfInjury") = Absent
        /\ Field(c1.data, "landlinePhone") = Absent /\ Field(c2.data, "landlinePhone") = Blank
        /\ Core(c1.data) = Core(c2.data)
        /\ Len(FindingsFor(c1, "mobilePhone")) = 1
        /\ c1.report.total_checks = c2.report.total_checks

\* the fields of the findings of call c, in their order
FieldsOf(c) == [j \in 1..Len(Details(c)) |-> Details(c)[j].field]

\* the findings of call c that are not flagged valid, in their order
Failing(c) == SelectSeq(Details(c), LAMBDA f : f.valid # PyBool(TRUE))

\* one "- field: message" line for each of the findings
RECURSIVE ListedLines(_)
ListedLines(findings) ==
    IF findings = <<>> THEN ""
    ELSE "- " \o findings[1].field \o ": " \o findings[1].message \o "\n"
         \o ListedLines(Tail(findings))

FirstFive(s) == SubSeq(s, 1, IF Len(s) < 5 THEN Len(s) ELSE 5)

\* the summary of call c is the heading with the count of failing findings and
\* the lines of the first five of them, then `trailer`
SummaryIs(c, trailer) ==
    c.report.summary = "Found " \o ToString(Len(Failing(c))) \o " validation issues:\n"
                       \o ListedLines(FirstFive(Failing(c))) \o trailer

\* the summary of call c lists failing checks, whatever the form of the trailer
SummaryListsFailing(c) ==
    \E dots \in {"...", "... "} :
        SummaryIs(c, IF Len(Failing(c)) > 5
                     THEN dots \o "and " \o ToString(Len(Failing(c)) - 5) \o " more issues."
                     ELSE "")

\* C12 as stated: for the empty record {} the findings are those of firstName,
\* lastName, gender, the four date fields, accidentDescription and
\* injuredBodyPart, 9 in all, completeness_score is 0 and the summary lists
\* failing always-run checks.
C12_AsStated ==
    \A c \in Returned :
        c.data = EmptyMap =>
            /\ FieldsOf(c) = <<"firstName", "lastName", "gender", "dateOfBirth",
                               "dateOfInjury", "formFillingDate",
                               "formReceiptDateAtClinic", "accidentDescription",
                               "injuredBodyPart">>
            /\ c.report.total_checks = 9
            /\ c.report.completeness_score.num = 0
            /\ SummaryListsFailing(c)

\* C12 amended: for the empty record {} the findings are those of firstName,
\* lastName, gender, the four date fields, address, accidentDescription and
\* injuredBodyPart, 10 in all and all failing, none for ID, phones or time;
\* completeness_score is 0 and the summary lists the first five of them.
C12_EmptyRecordTenFindings ==
    \A c \in Returned :
        c.data = EmptyMap =>
            /\ FieldsOf(c) = <<"firstName", "lastName", "gender", "dateOfBirth",
                               "dateOfInjury", "formFillingDate",
                               "formReceiptDateAtClinic", "address",
                               "accidentDescription", "injuredBodyPart">>
            /\ c.report.total_checks = 10
            /\ Len(Failing(c)) = 10
            /\ c.report.completeness_score.num = 0
            /\ SummaryListsFailing(c)

\* the empty record was validated and its address found incomplete
C12_Witness ==
    \E c \in Returned :
        /\ c.data = EmptyMap
        /\ Len(FindingsFor(c, "address")) = 1
        /\ FindingsFor(c, "address")[1].message = "Incomplete address information"

\* the trailer for n failing findings, after the opening `dots`
Trailer(dots, n) ==
    IF n > 5 THEN dots \o "and " \o ToString(n - 5) \o " more issues." ELSE ""

\* C13 as stated: the summary is "All validations passed successfully." when no
\* finding fails; otherwise "Found N validation issues:", the "- field: message"
\* lines of the first min(N, 5) failing findings in their order and, only when
\* N > 5, the trailer "...and K more issues." with K = N - 5.
C13_AsStated ==
    \A c \in Returned :
        IF Failing(c) = <<>>
        THEN c.report.summary = "All validations passed successfully."
        ELSE SummaryIs(c, Trailer("...", Len(Failing(c))))

\* C13 amended: as stated, the trailer reading "... and K more issues.", with a
\* blank after the dots; 7 failing findings give 5 lines and
\* "... and 2 more issues."
C13_SummaryText ==
    \A c \in Returned :
        /\ IF Failing(c) = <<>>
           THEN c.report.summary = "All validations passed successfully."
           ELSE SummaryIs(c, Trailer("... ", Len(Failing(c))))
        /\ Len(Failing(c)) = 7 =>
              c.report.summary = "Found 7 validation issues:\n"
                                 \o ListedLines(SubSeq(Failing(c), 1, 5))
                                 \o "... and 2 more issues."

\* a record with 7 failing findings was validated: 5 lines and the trailer
C13_Witness ==
    \E c \in Returned :
        /\ Len(Failing(c)) = 7
        /\ SummaryIs(c, "... and 2 more issues.")

\* h hundredths is p / t * 100 rounded to 2 decimals: no other number of
\* hundredths is nearer
RoundedPercent(h, p, t) ==
    /\ 2 * (h * t - p * 10000) <= t
    /\ 2 * (p * 10000 - h * t) <= t

\* C14: overall_score is passed_checks / total_checks * 100 rounded to 2
\* decimals, and 0 when total_checks is 0 (the guard of the computation, which
\* no call reaches with 0 since firstName always has a finding).
C14_OverallScoreRounded ==
    /\ \A c \in Returned :
          IF c.report.total_checks = 0 THEN c.report.overall_score = 0
          ELSE RoundedPercent(c.report.overall_score, c.report.passed_checks,
                              c.report.total_checks)
    /\ OverallScore(0, 0) = 0

\* a report whose score had to be rounded up
C14_Witness ==
    \E c \in Returned :
        /\ c.report.total_checks > 0
        /\ c.report.overall_score * c.report.total_checks
              > c.report.passed_checks * 10000

\* the sum of the values of a function with a finite domain
RECURSIVE SumFn(_)
SumFn(f) ==
    IF DOMAIN f = {} THEN 0
    ELSE LET k == CHOOSE x \in DOMAIN f : TRUE
         IN f[k] + SumFn([x \in DOMAIN f \ {k} |-> f[x]])

\* every value below v that is no mapping is a string
RECURSIVE AllStringLeaves(_)
AllStringLeaves(v) ==
    IF IsDict(v) THEN \A k \in DOMAIN v.d : AllStringLeaves(v.d[k]) ELSE IsStr(v)

\* the number of values below v that are no mapping, v itself if it is none
RECURSIVE LeafTotal(_)
LeafTotal(v) ==
    IF IsDict(v) THEN SumFn([k \in DOMAIN v.d |-> LeafTotal(v.d[k])]) ELSE 1

\* the number of those that are non-empty after trimming
RECURSIVE LeafFilled(_)
LeafFilled(v) ==
    IF IsDict(v) THEN SumFn([k \in DOMAIN v.d |-> LeafFilled(v.d[k])])
    ELSE IF StrStrip(v.s) # <<>> THEN 1 ELSE 0

\* C15: for a record whose leaves are strings, completeness_score is the
\* percentage of all leaves, at any depth of nesting and whether or not a rule
\* checks them, that are non-empty after trimming; it is 0 without a leaf.
C15_CompletenessOverAllLeaves ==
    \A c \in Returned :
        AllStringLeaves(PyDict(c.data)) =>
            LET total == LeafTotal(PyDict(c.data))
                filled == LeafFilled(PyDict(c.data))
                score == c.report.completeness_score
            IN IF total = 0 THEN score.num = 0
               ELSE score.num * total = 100 * filled * score.den

\* a record with a mapping within a mapping within a mapping, a leaf of blanks
\* among its leaves, was scored
C15_Witness ==
    \E c \in Returned :
        /\ c.data = With(FullRecord, "medicalInstitutionFields", DeepMapping)
        /\ LeafTotal(PyDict(c.data)) > LeafFilled(PyDict(c.data))
        /\ 0 < c.report.completeness_score.num
        /\ c.report.completeness_score.num < 100 * c.report.completeness_score.den

----------------------------------------------------------------------------
(* C16 - C20: the findings and the rules of the fields checked on every call *)

\* C16: every finding of every report carries a validity flag that is exactly
\* True or False, never None, beside its field, value and message.
C16_ValidIsBoolean ==
    \A c \in Returned : \A j \in 1..Len(Details(c)) :
        /\ DOMAIN Details(c)[j] = {"field", "value", "valid", "message"}
        /\ Details(c)[j].valid \in {PyBool(TRUE), PyBool(FALSE)}

\* the characters trimming removes
Blanks == {" ", "\t", "\n"}

\* the string of field f of record d, the empty string when f is absent
StrOf(d, f) == IF f \in DOMAIN d THEN d[f].s ELSE <<>>

\* s is not empty after trimming
TrimmedNonEmpty(s) == \E j \in 1..Len(s) : s[j] \notin Blanks

\* s trimmed is the word w: s is w with blanks before and after it
TrimmedIs(s, w) ==
    \E i \in 1..(Len(s) - Len(w) + 1) :
        /\ SubSeq(s, i, i + Len(w) - 1) = w
        /\ \A j \in 1..Len(s) : (j < i \/ j >= i + Len(w)) => s[j] \in Blanks

\* the accepted gender values: male and female in Hebrew and in English, the
\* abbreviations M, F and the Hebrew initials
AcceptedGenders ==
    {<<"zayin", "kaf", "resh">>, <<"nun", "qof", "bet", "he">>, <<"m", "a", "l", "e">>, <<"f", "e", "m", "a", "l", "e">>,
     <<"M">>, <<"F">>, <<"zayin">>, <<"nun">>}

\* field f has exactly one finding in the report of c, flagged True or False,
\* and True exactly when `good` holds
OneFindingValidIff(c, f, good) ==
    /\ Len(FindingsFor(c, f)) = 1
    /\ FindingsFor(c, f)[1].valid \in {PyBool(TRUE), PyBool(FALSE)}
    /\ FindingsFor(c, f)[1].valid = PyBool(TRUE) <=> good

\* C17: every report has one finding each for firstName, lastName and gender,
\* the field being present or not; a name is valid exactly when it is non-empty
\* after trimming, the gender exactly when trimmed it is one of the accepted
\* values, letter case included.
C17_NamesAndGender ==
    \A c \in Returned :
        /\ \A f \in {"firstName", "lastName"} :
              OneFindingValidIff(c, f, TrimmedNonEmpty(StrOf(c.data, f)))
        /\ OneFindingValidIff(c, "gender",
                              \E w \in AcceptedGenders : TrimmedIs(StrOf(c.data, "gender"), w))

\* a gender with blanks around an accepted word was found valid
C17_Witness ==
    \E c \in Returned :
        /\ Field(c.data, "gender") = PyStr(<<" ">> \o <<"f", "e", "m", "a", "l", "e">> \o <<"\n">>)
        /\ FlaggedValid(c, "gender", "Valid gender value")

\* the address of record d: the mapping it holds, the empty mapping when absent
AddressOf(d) == IF "address" \in DOMAIN d THEN d.address.d ELSE EmptyMap

\* part p of the address `a` is a string, or absent
StringPart(a, p) == p \in DOMAIN a => IsStr(a[p])

\* C18: a report for a record whose address is absent or a mapping has exactly
\* one address finding, valid exactly when street and city are both non-empty
\* after trimming, whatever houseNumber and the other parts are; its value is
\* "{street} {houseNumber}, {city}" of the strings as they are, an absent part
\* being the empty string.
C18_AddressFinding ==
    \A c \in Returned :
        ("address" \notin DOMAIN c.data \/ IsDict(c.data.address)) =>
            LET a == AddressOf(c.data)
            IN /\ OneFindingValidIff(c, "address",
                                     /\ TrimmedNonEmpty(StrOf(a, "street"))
                                     /\ TrimmedNonEmpty(StrOf(a, "city")))
               /\ StringPart(a, "houseNumber") =>
                     FindingsFor(c, "address")[1].value
                         = PyStr(StrOf(a, "street") \o <<" ">> \o StrOf(a, "houseNumber")
                                 \o <<",", " ">> \o StrOf(a, "city"))

\* an address with padded street and city and no house number was found valid,
\* its value keeping the padding
C18_Witness ==
    \E c \in Returned :
        /\ Field(c.data, "address")
              = AddressObject(PyStr(<<" ", "H", "e", "r", "z", "l", " ">>), Absent, PyStr(<<"H", "a", "i", "f", "a", " ">>), Absent)
        /\ FlaggedValid(c, "address", "Address has street and city")
        /\ FindingsFor(c, "address")[1].value = PyStr(<<" ", "H", "e", "r", "z", "l", " ", " ", ",", " ", "H", "a", "i", "f", "a", " ">>)

\* the length of s after trimming: from its first to its last character that
\* is no blank
TrimmedLength(s) ==
    LET solid == {j \in 1..Len(s) : s[j] \notin Blanks}
    IN IF solid = {} THEN 0
       ELSE (CHOOSE j \in solid : \A k \in solid : k <= j)
            - (CHOOSE j \in solid : \A k \in solid : j <= k) + 1

\* C19: every report has one finding each for accidentDescription and
\* injuredBodyPart; the description is valid exactly when its trimmed length is
\* more than 10 (exactly 10 is invalid), the body part exactly when it is
\* non-empty after trimming.
C19_DescriptionAndBodyPart ==
    \A c \in Returned :
        /\ OneFindingValidIff(c, "accidentDescription",
                              TrimmedLength(StrOf(c.data, "accidentDescription")) > 10)
        /\ TrimmedLength(StrOf(c.data, "accidentDescription")) = 10 =>
              FindingsFor(c, "accidentDescription")[1].valid = PyBool(FALSE)
        /\ OneFindingValidIff(c, "injuredBodyPart",
                              TrimmedNonEmpty(StrOf(c.data, "injuredBodyPart")))

\* a description of 10 characters between blanks, 13 with them, was found invalid
C19_Witness ==
    \E c \in Returned :
        /\ Field(c.data, "accidentDescription")
              = PyStr(<<" ">> \o DescriptionText(10) \o <<" ", "\n">>)
        /\ TrimmedLength(c.data.accidentDescription.s) = 10
        /\ FindingsFor(c, "accidentDescription")[1].valid = PyBool(FALSE)

\* s without the blanks before its first and after its last other character
TrimmedOf(s) ==
    LET solid == {j \in 1..Len(s) : s[j] \notin Blanks}
    IN IF solid = {} THEN <<>>
       ELSE SubSeq(s, CHOOSE j \in solid : \A k \in solid : j <= k,
                      CHOOSE j \in solid : \A k \in solid : k <= j)

\* s with "d" in the place of every digit
ShapeOf(s) == [j \in 1..Len(s) |-> IF s[j] \in Digits THEN "d" ELSE s[j]]

\* H:MM, H.MM and H:MM:SS with an hour of 1 or 2 digits
TimeShapes == {<<"d", ":", "d", "d">>, <<"d", "d", ":", "d", "d">>, <<"d", ".", "d", "d">>, <<"d", "d", ".", "d", "d">>, <<"d", ":", "d", "d", ":", "d", "d">>, <<"d", "d", ":", "d", "d", ":", "d", "d">>}

----------------------------------------------------------------------------
(* C21 - C25: the order of the findings, the calls of one instance and of
   several, values of date fields that are no mapping *)

\* the fields in the order of their checks, and the group each belongs to
CheckOrder ==
    <<"idNumber", "firstName", "lastName", "gender",
      "dateOfBirth", "dateOfInjury", "formFillingDate", "formReceiptDateAtClinic",
      "landlinePhone", "mobilePhone", "address",
      "accidentDescription", "injuredBodyPart", "timeOfInjury">>

GroupOf(k) == IF k <= 4 THEN 1 ELSE IF k <= 8 THEN 2 ELSE IF k <= 11 THEN 3 ELSE 4

\* the place of the field of a finding in CheckOrder, 0 for an unknown field
PlaceOf(f) ==
    IF \E k \in 1..Len(CheckOrder) : CheckOrder[k] = f.field
    THEN CHOOSE k \in 1..Len(CheckOrder) : CheckOrder[k] = f.field
    ELSE 0

\* the findings follow CheckOrder, none of a field twice, all of the first
\* `groups` groups
InCheckOrder(findings, groups) ==
    /\ \A j \in 1..Len(findings) :
          PlaceOf(findings[j]) > 0 /\ GroupOf(PlaceOf(findings[j])) <= groups
    /\ \A j, k \in 1..Len(findings) :
          j < k => PlaceOf(findings[j]) < PlaceOf(findings[k])

\* how many of the four groups have run on instance i when it is at pc[i]
GroupsRun(i) ==
    CASE pc[i] = "personal" -> 0 [] pc[i] = "dates" -> 1 [] pc[i] = "contact" -> 2
      [] pc[i] = "accident" -> 3 [] OTHER -> 4

\* C21: at every step of a call the findings appended so far follow the fixed
\* order idNumber, firstName, ..., timeOfInjury and belong to the groups that
\* have run; a report is there only once all four groups have run, and lists
\* the findings in that order, a skipped conditional finding being absent.
C21_FixedOrder ==
    /\ \A i \in DOMAIN pc :
          InCheckOrder(heap[validation_results[i]], GroupsRun(i))
    /\ \A c \in Returned :
          /\ InCheckOrder(Details(c), 4)
          /\ \E j \in 1..Len(Details(c)) : GroupOf(PlaceOf(Details(c)[j])) = 4
          /\ c.report.total_checks = Len(Details(c))

\* a report with all 14 findings, in the order of the checks
C21_Witness ==
    \E c \in Returned : FieldsOf(c) = CheckOrder

\* C22: in any sequence of calls on one instance each call ends as the call of
\* a new instance with the same record does (the same findings, scores, counts
\* and summary, or an exception), whatever the calls before it were: its
\* findings are those of its own record only.
C22_NoCrossCallState ==
    \A i \in DOMAIN calls : \A k \in 1..Len(calls[i]) :
        /\ Contents(calls[i][k]) = FreshInstanceCall(calls[i][k].data, calls[i][k].year)
        /\ ~calls[i][k].raised =>
              \A f \in StringFields :
                  \A j \in 1..Len(FindingsFor(calls[i][k], f)) :
                      FindingsFor(calls[i][k], f)[j].value
                          = (IF f \in DOMAIN calls[i][k].data THEN calls[i][k].data[f]
                             ELSE Blank)

\* a call returned its report after a call with another record, which left
\* findings in its list and raised
C22_Witness ==
    \E i \in DOMAIN calls :
        /\ Len(calls[i]) = 2
        /\ calls[i][1].raised
        /\ heap[validation_results[i] - 1] # <<>>
        /\ ~calls[i][2].raised
        /\ calls[i][2].data # calls[i][1].data
        /\ calls[i][2].report.total_checks = Len(Details(calls[i][2]))

\* C23: no step of a later call changes what an earlier call returned: the
\* report stays as it is, and so does the list of findings it refers to.
C23_ReportsUnchanged ==
    [][\A i \in DOMAIN calls : \A k \in 1..Len(calls[i]) :
          /\ calls'[i][k] = calls[i][k]
          /\ ~calls[i][k].raised =>
                heap'[calls[i][k].report.validation_details]
                    = heap[calls[i][k].report.validation_details]]_vars

\* two calls on one instance have returned reports with different findings,
\* each in a list of its own, the first as long as it was counted
C23_Witness ==
    \E i \in DOMAIN calls :
        /\ Len(calls[i]) = 2
        /\ ~calls[i][1].raised /\ ~calls[i][2].raised
        /\ calls[i][1].report.validation_details # calls[i][2].report.validation_details
        /\ Details(calls[i][1]) # Details(calls[i][2])
        /\ Len(Details(calls[i][1])) = calls[i][1].report.total_checks

\* C24: with one DataValidator for each run of main, whatever the interleaving
\* of the steps of the calls, each call ends as it does when run alone on a new
\* instance; no two instances share a list, and no finding of a string field
\* has a value of another record.
C24_OwnInstanceIsSafe ==
    /\ \A i, j \in DOMAIN pc : i # j => validation_results[i] # validation_results[j]
    /\ \A c \in AllCalls : Contents(c) = FreshInstanceCall(c.data, c.year)
    /\ \A c \in Returned : \A j \in 1..Len(Details(c)) :
          Details(c)[j].field \in StringFields =>
              Details(c)[j].value = (IF Details(c)[j].field \in DOMAIN c.data
                                     THEN c.data[Details(c)[j].field] ELSE Blank)

\* one run has its report while another, which began its call earlier with
\* another record, still is between two of its groups with findings appended
C24_Witness ==
    \E i, j \in DOMAIN pc :
        /\ i # j
        /\ Len(calls[i]) = 1 /\ ~calls[i][1].raised
        /\ calls[i][1].report.total_checks > 0
        /\ pc[j] \in {"dates", "contact", "accident"}
        /\ heap[validation_results[j]] # <<>>
        /\ validation_results[j] < calls[i][1].report.validation_details
        /\ data[j] # calls[i][1].data

\* C25: a call whose record has a date field that is no mapping ends as the
\* call with that field absent does, but for the finding of that field: it
\* raises only if that one does, has no finding for the field, has every other
\* finding of that one in the same order, and counts one check less.
C25_NonMappingDateSkipped ==
    \A c \in AllCalls : \A f \in DateFieldNames :
        (f \in DOMAIN c.data /\ ~IsDict(c.data[f])) =>
            LET absent == FreshInstanceCall(Without(c.data, {f}), c.year)
            IN /\ c.raised = absent.raised
               /\ ~c.raised =>
                     /\ FindingsFor(c, f) = <<>>
                     /\ Details(c) = SelectSeq(absent.report.validation_details,
                                               LAMBDA x : x.field # f)
                     /\ c.report.total_checks = absent.report.total_checks - 1

\* a record whose dateOfInjury is a string was validated: 13 findings where the
\* record with a mapping there has 14, none of them for dateOfInjury
C25_Witness ==
    \E c \in Returned :
        /\ c.data = With(FullRecord, "dateOfInjury", PyStr(<<"1", "/", "2", "/", "2", "0", "2", "4">>))
        /\ FindingsFor(c, "dateOfInjury") = <<>>
        /\ c.report.total_checks = 13

====
